---- MODULE Spec2Model ----
(***************************************************************************)
(* Model of rcpsp_pack.py: the linear makespan descent                      *)
(* (solve_rcpsp_linear_search), the decision call                           *)
(* (solve_rcpsp_with_makespan_bound) and the batch loop (main) with its     *)
(* CSV sink.  Time is kept in clock ticks of one millisecond.               *)
(***************************************************************************)
EXTENDS Integers, Sequences, FiniteSets, TLC

\* ---- bounds of the model ------------------------------------------------
MaxInstances == 2
MaxBound == 2

\* ---- program constants ---------------------------------------------------
TIME_PER_INSTANCE == 900
TicksPerSecond == 1000
Budget == TIME_PER_INSTANCE * TicksPerSecond

\* Python's None in an integer slot, and a header token int() rejects.
None == 0 - 1
NotInt == 0 - 2

\* ---- inputs --------------------------------------------------------------
Bounds == 1..MaxBound
\* First lines of a .data file after split(): task_count resource_count [LB [UB]]
Headers ==
    {<<>>, <<NotInt, 1>>, <<1, 1>>, <<1, 1, NotInt>>}
        \cup {<<1, 1, b>> : b \in Bounds}
        \cup {<<1, 1, l, u>> : l \in Bounds, u \in Bounds}
\* Headers of the files of a batch: unreadable, without bounds, a single
\* bound, and a range of two values
BatchHeaders ==
    {<<>>, <<1, 1>>, <<1, 1, MaxBound>>, <<1, 1, MaxBound - 1, MaxBound>>}
\* Wall-clock time spent opening the file and reading its first line.
ReadTimes == {0, 6}
\* Wall-clock time one decision call may take (0, the whole budget, overrun).
CallTimes == {0, Budget, Budget + 1}
\* For one search alone: also a call that ends half a second before the budget
SearchCallTimes == CallTimes \cup {Budget - 500}
\* What the decision call's body can end in.
Decisions == {"Feasible", "Infeasible", "TimedOut", "Error"}

Max(a, b) == IF a >= b THEN a ELSE b

\* ---- pure helpers --------------------------------------------------------
\* lines 86-96: the int() conversions and indexing of the first line raise
ParseFails(h) ==
    \/ Len(h) < 2
    \/ h[1] = NotInt
    \/ h[2] = NotInt
    \/ (Len(h) >= 3 /\ h[3] = NotInt)
    \/ (Len(h) >= 4 /\ h[4] = NotInt)

\* lines 91-100: bounds present in the header
HasBounds(h) == Len(h) >= 3
HeaderLB(h) == h[3]
HeaderUB(h) == IF Len(h) >= 4 THEN h[4] ELSE h[3]

TimeToUse_NoFloor(remaining) == remaining
\* line 62: time_to_use = max(1, time_remaining)
TimeToUse(remaining) == Max(1 * TicksPerSecond, remaining)

IsSolution_NotInfeasible(d) == d # "Infeasible"
\* line 69 / 71-73: res is not None and res.is_solution(); exceptions give False
IsSolution(d) == d = "Feasible"

BudgetExhausted_Strict(remaining) == remaining < 0
BudgetExhausted_Never(remaining) == FALSE
\* line 120: if time_remaining <= 0
BudgetExhausted(remaining) == remaining <= 0

InRange_Below(m, lb) == m >= lb - 1
NextCandidate_Skip(m) == m - 2
\* line 114: range(UPPER_BOUND, LOWER_BOUND - 1, -1)
InRange(m, lb) == m >= lb
NextCandidate(m) == m - 1

StartTime_OfBatch(t) == 0
\* line 81: start_time = time.time(), taken anew by every search
StartTime(t) == t

StopsDescent_Never(feasible) == FALSE
StopsDescent_Inverted(feasible) == feasible
\* lines 135-146: continue on feasible, break otherwise
StopsDescent(feasible) == ~feasible

Status_AnyBest(best, lb, solve_time, timed_out) ==
    IF best # None
    THEN IF solve_time > Budget \/ timed_out THEN "feasible" ELSE "optimal"
    ELSE "infeasible"
Status_NoOverrun(best, lb, solve_time, timed_out) ==
    IF best # None
    THEN IF timed_out THEN "feasible"
         ELSE IF best = lb THEN "optimal"
         ELSE "feasible"
    ELSE "infeasible"
Status_AtBudget(best, lb, solve_time, timed_out) ==
    IF best # None
    THEN IF solve_time >= Budget \/ timed_out THEN "feasible"
         ELSE IF best = lb THEN "optimal"
         ELSE "feasible"
    ELSE "infeasible"
\* lines 150-169: status of the returned tuple
Status(best, lb, solve_time, timed_out) ==
    IF best # None
    THEN IF solve_time > Budget \/ timed_out THEN "feasible"
         ELSE IF best = lb THEN "optimal"
         ELSE "feasible"
    ELSE "infeasible"

\* lines 225-227: str(v) if v is not None else "N/A"
Str(v) == IF v = None THEN [na |-> TRUE, v |-> 0] ELSE [na |-> FALSE, v |-> v]
NA == [na |-> TRUE, v |-> 0]

\* line 235: f"{solve_time:.2f}", as whole seconds and hundredths
Format2f(t) ==
    LET cs == (t + 5) \div 10
    IN  [int |-> cs \div 100, frac |-> cs % 100]

\* line 199: all_data_files.sort()
RECURSIVE Insert(_, _)
Insert(x, s) ==
    IF s = <<>> THEN <<x>>
    ELSE IF x <= Head(s) THEN <<x>> \o s
    ELSE <<Head(s)>> \o Insert(x, Tail(s))
RECURSIVE Sorted(_)
Sorted(s) == IF s = <<>> THEN <<>> ELSE Insert(Head(s), Sorted(Tail(s)))

\* line 189: glob order is arbitrary
Listings ==
    UNION {{s \in [1..n -> 1..n] : \A a, b \in 1..n : a # b => s[a] # s[b]}
            : n \in 0..MaxInstances}

\* line 213: the CSV title line
HeaderRow ==
    [file_name |-> 0, lb |-> NA, ub |-> NA, makespan |-> NA,
     status |-> "Status", time |-> Format2f(0)]
\* lines 229-236
Row(name, res) ==
    [file_name |-> name, lb |-> Str(res[1]), ub |-> Str(res[2]),
     makespan |-> Str(res[3]), status |-> res[4], time |-> Format2f(res[5])]
\* line 249
FallbackRow(name) ==
    [file_name |-> name, lb |-> NA, ub |-> NA, makespan |-> NA,
     status |-> "infeasible", time |-> Format2f(0)]

NoResult == <<None, None, None, "none", 0>>

ErrorResult_Zero(elapsed) == <<None, None, None, "infeasible", 0>>
\* lines 171-176: the search's own handler returns the measured time
ErrorResult(elapsed) == <<None, None, None, "infeasible", elapsed>>
\* lines 98-100: header without bounds
NoBoundsResult(elapsed) == <<None, None, None, "infeasible", elapsed>>

VARIABLES
    pc,               \* position of main / the search
    all_data_files,   \* line 189/199
    i,                \* line 215: 1-based index of the instance in hand
    pending,          \* rows written to csvfile but not yet flushed
    flushed,          \* rows that reached the output file
    now,              \* time.time()
    start_time,       \* line 81
    LOWER_BOUND, UPPER_BOUND,
    makespan,         \* line 114: candidate of the descent
    optimal_makespan, \* line 110
    attempts,         \* line 111
    timeout_occurred, \* line 112
    time_remaining,   \* line 117
    result,           \* tuple returned by solve_rcpsp_linear_search
    calls,            \* history: decision calls of the search in hand
    parse_failed,     \* history: instances whose header read raised
    unbounded,        \* history: instances whose header had no bounds
    sink_failed       \* history: a writerow/flush of the sink raised

vars == <<pc, all_data_files, i, pending, flushed, now, start_time,
          LOWER_BOUND, UPPER_BOUND, makespan, optimal_makespan, attempts,
          timeout_occurred, time_remaining, result, calls, parse_failed,
          unbounded, sink_failed>>

mainVars == <<all_data_files, i, pending, flushed, sink_failed>>
searchVars == <<start_time, LOWER_BOUND, UPPER_BOUND, makespan,
                optimal_makespan, attempts, timeout_occurred,
                time_remaining, result, calls>>
histVars == <<parse_failed, unbounded>>

InitWith(listings) ==
    /\ pc = "start"
    /\ all_data_files \in listings
    /\ i = 0
    /\ pending = <<>>
    /\ flushed = <<>>
    /\ now = 0
    /\ start_time = 0
    /\ LOWER_BOUND = None
    /\ UPPER_BOUND = None
    /\ makespan = None
    /\ optimal_makespan = None
    /\ attempts = 0
    /\ timeout_occurred = FALSE
    /\ time_remaining = 0
    /\ result = NoResult
    /\ calls = <<>>
    /\ parse_failed = {}
    /\ unbounded = {}
    /\ sink_failed = FALSE

\* a data directory of up to MaxInstances files
Init == InitWith(Listings)
\* a data directory holding one file
SearchInit == InitWith({<<1>>})

\* ---- main, lines 181-213 ------------------------------------------------
\* lines 189-199: no files: return; else sort the listing
Start ==
    /\ pc = "start"
    /\ IF all_data_files = <<>>
       THEN pc' = "done" /\ UNCHANGED all_data_files
       ELSE pc' = "open" /\ all_data_files' = Sorted(all_data_files)
    /\ UNCHANGED <<i, pending, flushed, sink_failed, now>>
    /\ UNCHANGED searchVars /\ UNCHANGED histVars

\* lines 210-213: open the output and write the title line
OpenOutput ==
    /\ pc = "open"
    /\ \/ pc' = "loop" /\ pending' = <<HeaderRow>> /\ UNCHANGED sink_failed
       \/ pc' = "aborted" /\ sink_failed' = TRUE /\ UNCHANGED pending
    /\ UNCHANGED <<all_data_files, i, flushed, now>>
    /\ UNCHANGED searchVars /\ UNCHANGED histVars

\* line 215: next file of the for loop, or leave the with block
NextInstance ==
    /\ pc = "loop"
    /\ IF i < Len(all_data_files)
       THEN i' = i + 1 /\ pc' = "read"
       ELSE pc' = "close" /\ UNCHANGED i
    /\ UNCHANGED <<all_data_files, pending, flushed, sink_failed, now>>
    /\ UNCHANGED searchVars /\ UNCHANGED histVars

\* ---- solve_rcpsp_linear_search, lines 81-112 and 171-176 ----------------
ReadHeader(h, dt) ==
    /\ pc = "read"
    /\ start_time' = StartTime(now)
    /\ now' = now + dt
    /\ IF ParseFails(h)
       THEN /\ result' = ErrorResult(now' - start_time')
            /\ pc' = "returned"
            /\ parse_failed' = parse_failed \cup {all_data_files[i]}
            /\ UNCHANGED <<LOWER_BOUND, UPPER_BOUND, makespan, unbounded>>
       ELSE IF ~HasBounds(h)
       THEN /\ result' = NoBoundsResult(now' - start_time')
            /\ pc' = "returned"
            /\ unbounded' = unbounded \cup {all_data_files[i]}
            /\ UNCHANGED <<LOWER_BOUND, UPPER_BOUND, makespan, parse_failed>>
       ELSE /\ LOWER_BOUND' = HeaderLB(h)
            /\ UPPER_BOUND' = HeaderUB(h)
            /\ makespan' = HeaderUB(h)
            /\ pc' = "iter"
            /\ UNCHANGED <<result, parse_failed, unbounded>>
    /\ optimal_makespan' = None
    /\ attempts' = 0
    /\ timeout_occurred' = FALSE
    /\ UNCHANGED <<time_remaining, calls>>
    /\ UNCHANGED mainVars

\* lines 114-123: top of one descent step
Iterate ==
    /\ pc = "iter"
    /\ IF ~InRange(makespan, LOWER_BOUND)
       THEN /\ pc' = "classify"
            /\ UNCHANGED <<attempts, time_remaining, timeout_occurred>>
       ELSE /\ attempts' = attempts + 1
            /\ time_remaining' = Budget - (now - start_time)
            /\ IF BudgetExhausted(time_remaining')
               THEN timeout_occurred' = TRUE /\ pc' = "classify"
               ELSE pc' = "call" /\ UNCHANGED timeout_occurred
    /\ UNCHANGED <<start_time, LOWER_BOUND, UPPER_BOUND, makespan,
                   optimal_makespan, result, calls, now>>
    /\ UNCHANGED mainVars /\ UNCHANGED histVars

\* lines 129-146 with the callee, lines 19-73
solve_rcpsp_with_makespan_bound(d, dt) ==
    /\ pc = "call"
    /\ d = "TimedOut" => dt >= TimeToUse(time_remaining)
    /\ now' = now + dt
    /\ calls' = Append(calls, [bound |-> makespan, decision |-> d,
                               limit |-> TimeToUse(time_remaining),
                               remaining |-> time_remaining,
                               elapsed |-> now - start_time,
                               took |-> dt])
    /\ LET is_feasible == IsSolution(d) IN
       /\ optimal_makespan' = IF is_feasible THEN makespan ELSE optimal_makespan
       /\ IF StopsDescent(is_feasible)
          THEN pc' = "classify" /\ UNCHANGED makespan
          ELSE pc' = "iter" /\ makespan' = NextCandidate(makespan)
    /\ UNCHANGED <<start_time, LOWER_BOUND, UPPER_BOUND, attempts,
                   timeout_occurred, time_remaining, result>>
    /\ UNCHANGED mainVars /\ UNCHANGED histVars

\* lines 148-169
Classify ==
    /\ pc = "classify"
    /\ LET solve_time == now - start_time IN
       result' = <<LOWER_BOUND, UPPER_BOUND, optimal_makespan,
                   Status(optimal_makespan, LOWER_BOUND, solve_time,
                          timeout_occurred),
                   solve_time>>
    /\ pc' = "returned"
    /\ UNCHANGED <<start_time, LOWER_BOUND, UPPER_BOUND, makespan,
                   optimal_makespan, attempts, timeout_occurred,
                   time_remaining, calls, now>>
    /\ UNCHANGED mainVars /\ UNCHANGED histVars

\* ---- main, lines 221-250 ------------------------------------------------
\* the callee's locals die when the tuple is unpacked (line 222)
ClearLocals ==
    /\ LOWER_BOUND' = None
    /\ UPPER_BOUND' = None
    /\ makespan' = None
    /\ optimal_makespan' = None
    /\ attempts' = 0
    /\ timeout_occurred' = FALSE
    /\ time_remaining' = 0
    /\ calls' = <<>>
    /\ start_time' = 0
    /\ result' = NoResult

\* lines 222-236: unpack, format, csv_writer.writerow
WriteRow ==
    /\ pc = "returned"
    /\ \/ /\ pending' = Append(pending, Row(all_data_files[i], result))
          /\ pc' = "flush"
          /\ UNCHANGED sink_failed
       \/ /\ sink_failed' = TRUE
          /\ pc' = "except"
          /\ UNCHANGED pending
    /\ ClearLocals
    /\ UNCHANGED <<all_data_files, i, flushed, now>>
    /\ UNCHANGED histVars

\* line 237: csvfile.flush(); a failed flush keeps the buffered text
Flush ==
    /\ pc = "flush"
    /\ \/ /\ flushed' = flushed \o pending
          /\ pending' = <<>>
          /\ pc' = "loop"
          /\ UNCHANGED sink_failed
       \/ /\ sink_failed' = TRUE
          /\ pc' = "except"
          /\ UNCHANGED <<flushed, pending>>
    /\ UNCHANGED <<all_data_files, i, now>>
    /\ UNCHANGED searchVars /\ UNCHANGED histVars

\* lines 247-249: the handler writes a replacement row
ExceptWrite ==
    /\ pc = "except"
    /\ \/ /\ pending' = Append(pending, FallbackRow(all_data_files[i]))
          /\ pc' = "except_flush"
       \/ /\ pc' = "unwind"
          /\ UNCHANGED pending
    /\ UNCHANGED <<all_data_files, i, flushed, sink_failed, now>>
    /\ UNCHANGED searchVars /\ UNCHANGED histVars

\* line 250
ExceptFlush ==
    /\ pc = "except_flush"
    /\ \/ /\ flushed' = flushed \o pending
          /\ pending' = <<>>
          /\ pc' = "loop"
       \/ /\ pc' = "unwind"
          /\ UNCHANGED <<flushed, pending>>
    /\ UNCHANGED <<all_data_files, i, sink_failed, now>>
    /\ UNCHANGED searchVars /\ UNCHANGED histVars

\* line 210: leaving the with block closes csvfile, which flushes it;
\* from "unwind" the exception of the handler goes on propagating
CloseOutput ==
    /\ pc \in {"close", "unwind"}
    /\ \/ /\ flushed' = flushed \o pending
          /\ pc' = IF pc = "close" THEN "upload" ELSE "aborted"
          /\ UNCHANGED sink_failed
       \/ /\ UNCHANGED flushed
          /\ sink_failed' = TRUE
          /\ pc' = "aborted"
    /\ pending' = <<>>
    /\ UNCHANGED <<all_data_files, i, now>>
    /\ UNCHANGED searchVars /\ UNCHANGED histVars

\* lines 252-267: publish the finished file
Upload ==
    /\ pc = "upload"
    /\ pc' \in {"done", "upload_failed"}
    /\ UNCHANGED <<all_data_files, i, pending, flushed, sink_failed, now>>
    /\ UNCHANGED searchVars /\ UNCHANGED histVars

NextOver(headers, readTimes, callTimes) ==
    \/ Start
    \/ OpenOutput
    \/ NextInstance
    \/ \E h \in headers, dt \in readTimes : ReadHeader(h, dt)
    \/ Iterate
    \/ \E d \in Decisions, dt \in callTimes : solve_rcpsp_with_makespan_bound(d, dt)
    \/ Classify
    \/ WriteRow
    \/ Flush
    \/ ExceptWrite
    \/ ExceptFlush
    \/ CloseOutput
    \/ Upload

\* the batch over a directory of files
Next == NextOver(BatchHeaders, ReadTimes, CallTimes)
Spec == Init /\ [][Next]_vars

\* the batch as a sequential program that keeps running: every step that is
\* enabled is eventually taken (every decision call returns)
\* (calls that return at once or use up the budget, headers read in no time)
FairNext == NextOver(BatchHeaders, {0}, {0, Budget})
FairSpec == Init /\ [][FairNext]_vars /\ WF_vars(FairNext)

\* one file, every header over Bounds
SearchNext == NextOver(Headers, ReadTimes, SearchCallTimes)
SearchSpec == SearchInit /\ [][SearchNext]_vars

\* ==== properties ==========================================================
\* bounds for which a decision call of the search in hand returned feasible
FeasibleBounds ==
    {calls[k].bound : k \in {j \in 1..Len(calls) : calls[j].decision = "Feasible"}}
Min(S) == CHOOSE x \in S : \A y \in S : x <= y
\* rows of the output file below the title line
DataRows(s) == SelectSeq(s, LAMBDA r : r.file_name # 0)
RowsOf(s, name) == SelectSeq(s, LAMBDA r : r.file_name = name)
Finished == pc \in {"upload", "done", "upload_failed"} /\ all_data_files # <<>>

\* C1: within one search, after a decision call for bound m returned
\* not-feasible, no later decision call of that search has a bound below m
\* (in fact the not-feasible call is the last call of the search).
C1_DescentStopsAtFirstInfeasible ==
    \A a \in 1..Len(calls) : \A b \in 1..Len(calls) :
        (a < b /\ calls[a].decision # "Feasible")
            => ~(calls[b].bound < calls[a].bound)
\* a search that ended on a not-feasible answer with smaller bounds untried
C1_Witness ==
    /\ pc = "returned"
    /\ Len(calls) = 1
    /\ calls[1].decision = "Infeasible"
    /\ LOWER_BOUND < calls[1].bound

\* C2: when a feasible value was found, the returned makespan is the smallest
\* feasible bound, the status is optimal exactly when that value equals the
\* lower bound and neither the budget check fired nor the solve time exceeded
\* the budget, and it is feasible otherwise.
C2_OptimalIffLowerAndNotTimedOut ==
    (pc = "returned" /\ FeasibleBounds # {}) =>
        /\ result[3] = Min(FeasibleBounds)
        /\ result[4] \in {"optimal", "feasible"}
        /\ result[4] = "optimal" <=>
              /\ Min(FeasibleBounds) = LOWER_BOUND
              /\ ~timeout_occurred
              /\ ~(now - start_time > Budget)
\* answers F then I on [1, 2]: feasible with the upper value
C2_Witness ==
    /\ pc = "returned"
    /\ LOWER_BOUND = 1 /\ UPPER_BOUND = 2
    /\ Len(calls) = 2
    /\ calls[1].decision = "Feasible" /\ calls[2].decision = "Infeasible"
    /\ result[3] = 2 /\ result[4] = "feasible"

\* C3 as stated: with LB = UB and Feasible at that value the outcome is
\* optimal, whatever the time the call took.
C3_Original ==
    (/\ pc = "returned"
     /\ LOWER_BOUND # None /\ LOWER_BOUND = UPPER_BOUND
     /\ Len(calls) = 1 /\ calls[1].decision = "Feasible")
        => (result[4] = "optimal" /\ result[3] = LOWER_BOUND)
\* C3 amended: with LB = UB and Feasible at that value the makespan is that
\* bound and the status is optimal exactly when the solve time of the search
\* did not exceed the budget; past the budget it is feasible.
C3_OptimalUnlessOverBudget ==
    (/\ pc = "returned"
     /\ LOWER_BOUND # None /\ LOWER_BOUND = UPPER_BOUND
     /\ Len(calls) = 1 /\ calls[1].decision = "Feasible")
        => /\ result[3] = LOWER_BOUND
           /\ IF now - start_time <= Budget
              THEN result[4] = "optimal"
              ELSE result[4] = "feasible"
\* LB = UB, the single call used the whole budget and answered Feasible
C3_Witness ==
    /\ pc = "returned"
    /\ LOWER_BOUND # None /\ LOWER_BOUND = UPPER_BOUND
    /\ Len(calls) = 1 /\ calls[1].decision = "Feasible"
    /\ calls[1].took = Budget
    /\ result[4] = "optimal"

\* C4: a decision call is only issued with remaining = budget - elapsed > 0;
\* when remaining <= 0 the flag is set, the step issues no call and the
\* descent is over, and the outcome is feasible with the best value found.
C4_BudgetCheckStopsDescent ==
    /\ pc = "call" =>
          /\ time_remaining = Budget - (now - start_time)
          /\ time_remaining > 0
    /\ timeout_occurred =>
          /\ pc \in {"classify", "returned"}
          /\ time_remaining = Budget - (now - start_time)
          /\ time_remaining <= 0
          /\ attempts = Len(calls) + 1
    /\ (timeout_occurred /\ pc = "returned") =>
          /\ FeasibleBounds # {}
          /\ result[3] = Min(FeasibleBounds)
          /\ result[4] = "feasible"
\* the budget ran out after Feasible at the upper bound, before the next call
C4_Witness ==
    /\ pc = "returned"
    /\ timeout_occurred
    /\ LOWER_BOUND = 1 /\ UPPER_BOUND = 2
    /\ Len(calls) = 1 /\ calls[1].bound = 2
    /\ result[3] = 2 /\ result[4] = "feasible"

\* C5 as stated, for the oracle timeout: a search whose only decision call
\* ended in TimedOut, so that no determination was made and no feasible value
\* found, is not reported infeasible.
C5_TimeoutNeverInfeasible ==
    (/\ pc = "returned"
     /\ Len(calls) = 1
     /\ calls[1].decision = "TimedOut")
        => result[4] # "infeasible"

\* C6 as stated: an instance without bounds gets no decision call and is not
\* reported as infeasible.
C6_NoBoundsNotInfeasible ==
    (pc = "returned" /\ all_data_files[i] \in unbounded)
        => (calls = <<>> /\ result[4] # "infeasible")

\* C7 as stated: once the loop is over and the file closed, the output holds
\* exactly one row per input instance.
C7_OneRowPerInstance ==
    Finished =>
        \A k \in 1..Len(all_data_files) :
            Len(RowsOf(flushed, all_data_files[k])) = 1

\* C8 as stated: with exactly one parse failure and a working sink the batch
\* writes N rows and status error is on the failing instance's row only.
C8_ErrorOnFailingRowOnly ==
    (Finished /\ ~sink_failed /\ Cardinality(parse_failed) = 1) =>
        /\ Len(DataRows(flushed)) = Len(all_data_files)
        /\ \A k \in 1..Len(flushed) :
              flushed[k].file_name # 0 =>
                 (flushed[k].status = "error"
                     <=> flushed[k].file_name \in parse_failed)

\* C9 as stated: the row of an instance whose parsing raised has solve time
\* "0.00".
C9_Original ==
    \A k \in 1..Len(flushed) :
        flushed[k].file_name \in parse_failed
            => flushed[k].time = Format2f(0)
\* C9 amended: an exception while reading the header is turned by the search
\* into N/A bounds and makespan, status infeasible and the time measured since
\* the search started; that tuple is the row handed to the sink, and with a
\* working sink the batch goes on until every instance has its row.
C9_ParseErrorBecomesRow ==
    /\ [](pc = "returned" /\ all_data_files[i] \in parse_failed
            => /\ result = <<None, None, None, "infeasible", now - start_time>>
               /\ calls = <<>>)
    /\ [][(pc = "returned" /\ all_data_files[i] \in parse_failed /\ pc' = "flush")
            => pending' = Append(pending,
                  [file_name |-> all_data_files[i], lb |-> NA, ub |-> NA,
                   makespan |-> NA, status |-> "infeasible",
                   time |-> Format2f(now - start_time)])]_vars
    /\ []((Finished /\ ~sink_failed) =>
            /\ i = Len(all_data_files)
            /\ \A k \in 1..Len(all_data_files) :
                  Len(RowsOf(flushed, all_data_files[k])) = 1)
\* a parse failure on the first of two instances that took 6 ms, its row
\* flushed with "0.01", and the second instance's search under way
C9_Witness ==
    /\ i = 2
    /\ 1 \in parse_failed
    /\ pc = "iter"
    /\ Len(RowsOf(flushed, 1)) = 1
    /\ RowsOf(flushed, 1)[1].time = [int |-> 0, frac |-> 1]

\* C10 as stated: after a writerow or flush of the sink raised, the batch is
\* over: no further row is attempted and no later instance is processed.
C10_SinkFailureIsFatal ==
    sink_failed => pc \in {"unwind", "aborted"}

\* time the decision calls of the search in hand took, summed
RECURSIVE TotalTook(_)
TotalTook(cs) == IF cs = <<>> THEN 0 ELSE Head(cs).took + TotalTook(Tail(cs))
SearchOver == pc \in {"classify", "returned"} /\ LOWER_BOUND # None

\* C11: every decision call of a search starts while the elapsed time is
\* still below the budget, and the time of all calls together exceeds the
\* budget by no more than the time of the last call, the one in flight when
\* the budget ran out.
C11_OverrunWithinLastCall ==
    /\ \A k \in 1..Len(calls) : calls[k].elapsed < Budget
    /\ calls # <<>> =>
          TotalTook(calls) - Budget <= calls[Len(calls)].took
\* two calls that together took more than the budget
C11_Witness ==
    /\ pc = "returned"
    /\ Len(calls) = 2
    /\ TotalTook(calls) > Budget
    /\ calls[2].elapsed > 0

\* C12 as stated: every step of the descent that is entered makes a decision
\* attempt, also when the remaining budget is not positive.
C12_Original ==
    SearchOver => attempts = Len(calls)
\* C12 amended: every decision call is made with a positive remaining budget
\* and a time limit of max(1 s, remaining); a step whose remaining budget is
\* not positive makes no call; a search over a non-empty range makes at least
\* one call (the header is read in less than the budget).
C12_FloorOnlyForPositiveRemaining ==
    /\ \A k \in 1..Len(calls) :
          /\ calls[k].remaining > 0
          /\ calls[k].limit >= 1 * TicksPerSecond
          /\ calls[k].limit >= calls[k].remaining
          /\ calls[k].limit \in {1 * TicksPerSecond, calls[k].remaining}
    /\ (SearchOver /\ Budget - (now - start_time) <= 0 /\ timeout_occurred)
          => attempts = Len(calls) + 1
    /\ (SearchOver /\ LOWER_BOUND <= UPPER_BOUND) => Len(calls) >= 1
\* a call made with half a second left, given a limit of one second
C12_Witness ==
    /\ Len(calls) = 2
    /\ calls[2].remaining = 500
    /\ calls[2].limit = 1000

\* status of the run that gets the same answers in no time at all
TimelessStatus ==
    IF FeasibleBounds = {} THEN "infeasible"
    ELSE IF Min(FeasibleBounds) = LOWER_BOUND THEN "optimal"
    ELSE "feasible"
TimelessMakespan ==
    IF FeasibleBounds = {} THEN None ELSE Min(FeasibleBounds)

\* C13 as stated: a search that the budget check did not cut short returns the
\* status and makespan its answers give when the calls take no time, whatever
\* the calls' durations were.
C13_Original ==
    (pc = "returned" /\ LOWER_BOUND # None /\ ~timeout_occurred)
        => (result[4] = TimelessStatus /\ result[3] = TimelessMakespan)
\* C13 amended: status and makespan are determined by the bounds and the
\* answers alone in every search that stays within its budget (the budget
\* check does not fire and the solve time does not exceed the budget).
C13_SameAnswersSameOutcomeWithinBudget ==
    (/\ pc = "returned" /\ LOWER_BOUND # None
     /\ ~timeout_occurred
     /\ now - start_time <= Budget)
        => (result[4] = TimelessStatus /\ result[3] = TimelessMakespan)
\* the answer Feasible at LB = UB after a long call that fits the budget
C13_Witness ==
    /\ pc = "returned"
    /\ LOWER_BOUND = UPPER_BOUND
    /\ Len(calls) = 1 /\ calls[1].decision = "Feasible"
    /\ calls[1].took = Budget - 500
    /\ result[4] = "optimal"

\* file names of a sequence of rows
Names(s) == [k \in 1..Len(s) |-> s[k].file_name]
InSearch == pc \in {"read", "iter", "call", "classify", "returned"}

\* C14 as stated: the files are taken in sorted order, and while instance i
\* is being processed the flushed output is the title line followed by one
\* row for each of the first i - 1 files, in that order, with nothing pending
\* (before the first flush the title line is still in the buffer and the
\* output is empty).
C14_FlushedIsPrefixOfSortedList ==
    /\ pc # "start" => all_data_files = Sorted(all_data_files)
    /\ (InSearch /\ flushed = <<>>) => (i = 1 /\ pending = <<HeaderRow>>)
    /\ (InSearch /\ flushed # <<>>) =>
          /\ pending = <<>>
          /\ flushed[1] = HeaderRow
          /\ Names(Tail(flushed)) = SubSeq(all_data_files, 1, i - 1)
\* the same with a sink that never raised
C14_HoldsWithWorkingSink == sink_failed \/ C14_FlushedIsPrefixOfSortedList

\* C15: the remaining budget at the first decision call of every search is
\* the full budget less the time that search spent reading its header,
\* whatever time earlier instances took.
C15_FreshBudgetPerInstance ==
    /\ (pc = "iter" /\ attempts = 0) => (now - start_time) \in ReadTimes
    /\ (pc = "call" /\ calls = <<>>) =>
          time_remaining \in {Budget - dt : dt \in ReadTimes}
\* the second search starts after the first one used up more than a budget
C15_Witness ==
    /\ i = 2
    /\ pc = "call" /\ calls = <<>>
    /\ start_time > Budget
    /\ time_remaining = Budget

\* C16: the decision calls of a search query UB, UB - 1, ... one by one: the
\* first call has bound UB, each later call the previous bound less 1, every
\* bound lies in LB..UB and is queried once, an empty range gets no call, and
\* a descent that met only feasible answers within its budget queried every
\* bound down to LB.
C16_BoundsDescendByOne ==
    /\ \A k \in 1..Len(calls) :
          /\ calls[k].bound = UPPER_BOUND - (k - 1)
          /\ calls[k].bound >= LOWER_BOUND
          /\ calls[k].bound <= UPPER_BOUND
    /\ \A a \in 1..Len(calls) : \A b \in 1..Len(calls) :
          a # b => calls[a].bound # calls[b].bound
    /\ (LOWER_BOUND # None /\ LOWER_BOUND > UPPER_BOUND) => calls = <<>>
    /\ (/\ SearchOver /\ LOWER_BOUND <= UPPER_BOUND /\ ~timeout_occurred
        /\ \A k \in 1..Len(calls) : calls[k].decision = "Feasible")
          => Len(calls) = UPPER_BOUND - LOWER_BOUND + 1
\* a descent over [1, 2] that queried 2 and then 1
C16_Witness ==
    /\ pc = "returned"
    /\ LOWER_BOUND = 1 /\ UPPER_BOUND = 2
    /\ Len(calls) = 2
    /\ calls[1].bound = 2 /\ calls[2].bound = 1
    /\ calls[2].decision = "Feasible"

\* C17 as stated: after a decision call that ended in TimedOut the search is
\* over with its timed-out flag set.
C17_OracleTimeoutSetsFlag ==
    (SearchOver /\ calls # <<>> /\ calls[Len(calls)].decision = "TimedOut")
        => timeout_occurred

Terminal == pc \in {"done", "aborted", "upload_failed"}

\* C18: a search makes at most UB - LB + 1 decision calls, the batch always
\* comes to an end, and unless the sink raised it ends with every instance
\* of the list processed and given its row.
C18_SearchAndBatchTerminate ==
    /\ [](LOWER_BOUND # None =>
            Len(calls) <= Max(0, UPPER_BOUND - LOWER_BOUND + 1))
    /\ <>Terminal
    /\ []((Terminal /\ ~sink_failed) =>
            /\ pc = "done" \/ pc = "upload_failed"
            /\ i = Len(all_data_files)
            /\ Names(DataRows(flushed)) = all_data_files)
\* a finished batch of two whose first file could not be parsed
C18_Witness ==
    /\ pc = "done"
    /\ ~sink_failed
    /\ i = 2
    /\ 1 \in parse_failed
    /\ Len(DataRows(flushed)) = 2

\* C19: in the tuple a search returns, and in every row written from one,
\* the makespan is present exactly with status optimal or feasible and absent
\* exactly with infeasible; a present makespan lies in LB..UB, is the smallest
\* bound answered feasible, and every bound from it up to UB was queried and
\* answered feasible.
C19_MakespanMatchesStatus ==
    /\ pc = "returned" =>
          /\ result[3] # None <=> result[4] \in {"optimal", "feasible"}
          /\ result[3] = None <=> result[4] = "infeasible"
          /\ result[3] # None =>
                /\ LOWER_BOUND <= result[3] /\ result[3] <= UPPER_BOUND
                /\ result[3] = Min(FeasibleBounds)
                /\ \A b \in result[3]..UPPER_BOUND :
                      \E k \in 1..Len(calls) :
                         calls[k].bound = b /\ calls[k].decision = "Feasible"
    /\ \A k \in 1..Len(flushed \o pending) :
          LET r == (flushed \o pending)[k] IN
          r.file_name # 0 =>
             /\ ~r.makespan.na <=> r.status \in {"optimal", "feasible"}
             /\ r.makespan.na <=> r.status = "infeasible"
             /\ ~r.makespan.na =>
                   (r.lb.v <= r.makespan.v /\ r.makespan.v <= r.ub.v)
\* a descent over [1, 2] that found 1 after 2
C19_Witness ==
    /\ pc = "returned"
    /\ LOWER_BOUND = 1 /\ UPPER_BOUND = 2
    /\ Len(calls) = 2
    /\ result[3] = 1 /\ result[4] = "optimal"

\* C20: a decision call that raised is the last call of its search; the
\* search returns the parsed LB and UB, with status infeasible and no
\* makespan if it was the first call and with status feasible and the
\* previous bound otherwise; the instance is not handled as a parse failure,
\* and main's handler runs only after the sink raised.
C20_CallExceptionReadsAsInfeasible ==
    /\ \A k \in 1..Len(calls) :
          calls[k].decision = "Error" =>
             (k = Len(calls) /\ pc \in {"classify", "returned"})
    /\ (pc = "returned" /\ calls # <<>>
            /\ calls[Len(calls)].decision = "Error") =>
          /\ result[1] = LOWER_BOUND /\ result[1] # None
          /\ result[2] = UPPER_BOUND /\ result[2] # None
          /\ all_data_files[i] \notin parse_failed
          /\ ~timeout_occurred
          /\ IF Len(calls) = 1
             THEN result[3] = None /\ result[4] = "infeasible"
             ELSE /\ result[3] = calls[Len(calls) - 1].bound
                  /\ result[4] = "feasible"
    /\ pc \in {"except", "except_flush"} => sink_failed
\* the second call of a descent raised after Feasible at the upper bound
C20_Witness ==
    /\ pc = "returned"
    /\ Len(calls) = 2
    /\ calls[2].decision = "Error"
    /\ result[3] = 2 /\ result[4] = "feasible"
====
